---- MODULE Spec2Model ----
(***************************************************************************)
(* Model of edlio/format.py: conversion of a Syntalos EDL collection into  *)
(* the MoSeq layout (depth.avi, metadata.json, depth_ts.txt).              *)
(*                                                                         *)
(* The file system below `path` is the state.  format() is modelled one    *)
(* statement group per action, with `pc` the position inside the call, so  *)
(* that the order of its writes and the state left by a failure can be     *)
(* stated.  _detect_edl_type, tsync_to_np and                              *)
(* check_timestamp_error_percentage are operators.                         *)
(*                                                                         *)
(* Floats: a timestamp in milliseconds is kept exactly as the record       *)
(* [ms, us] meaning ms + us/1000; tick / 1000 is computed, not assumed.    *)
(***************************************************************************)
EXTENDS Integers, Sequences, FiniteSets, TLC

(* ---------------------------- bounds ---------------------------------- *)
MaxEntries == 2     \* longest listing of videos/orbbec-femto-camera
MaxLen == 3         \* longest time-sync log, in entries
MaxCalls == 2       \* calls of format() in a row on the same tree

(* ------------------------ program constants --------------------------- *)
TicksPerMs == 1000          \* tsync_to_np: time_pair[1] / 1000
fps == 30                   \* check_timestamp_error_percentage default
scaling_factor == 1000      \* check_timestamp_error_percentage default
MsThreshold == 10           \* np.mean(diff) > 10
WarnNum == 5                \* >= 0.05, as the fraction WarnNum / WarnDen
WarnDen == 100

(* ------------------------- manifest values ---------------------------- *)
\* A TOML value of the key `type`, or its absence (manifest.get -> None).
NoType == [tag |-> "none", str |-> "", num |-> 0]
StrType(s) == [tag |-> "str", str |-> s, num |-> 0]
IntType(n) == [tag |-> "int", str |-> "", num |-> n]
BoolType(b) == [tag |-> "bool", str |-> "", num |-> IF b THEN 1 ELSE 0]

TypeValues ==
    { NoType, StrType(""), StrType("dataset"), StrType("group"),
      StrType("collection"), StrType("experiment"), StrType("Collection"),
      IntType(0), IntType(7), BoolType(FALSE), BoolType(TRUE) }

\* Python truthiness of the value, as `elif edl_type:` tests it.
Truthy(v) ==
    CASE v.tag = "none" -> FALSE
      [] v.tag = "str"  -> v.str # ""
      [] OTHER          -> v.num # 0

\* manifest.toml below path: absent, a directory, or a file that parses or not.
NoManifest == [kind |-> "absent", toml |-> "ok", type |-> NoType]
Manifests ==
    { NoManifest, [kind |-> "dir", toml |-> "ok", type |-> NoType],
      [kind |-> "file", toml |-> "malformed", type |-> NoType] }
    \cup { [kind |-> "file", toml |-> "ok", type |-> t] : t \in TypeValues }

(* ------------------------- metadata.json ------------------------------ *)
MetaKeys == {"SubjectName", "SessionName", "StartTime"}
Subjects == {"M1", "M2"}

MetaValue(k, subject) ==
    CASE k = "SubjectName" -> subject
      [] k = "SessionName" -> "S1"
      [] OTHER             -> "T0"

MetaData(keys, subject) == [k \in keys |-> MetaValue(k, subject)]
EmptyData == MetaData({}, "M1")

NoMetadata == [kind |-> "absent", json |-> "invalid", data |-> EmptyData]
Metadatas ==
    { NoMetadata, [kind |-> "dir", json |-> "invalid", data |-> EmptyData],
      [kind |-> "file", json |-> "invalid", data |-> EmptyData],
      [kind |-> "file", json |-> "array", data |-> EmptyData] }
    \cup { [kind |-> "file", json |-> "object", data |-> MetaData(ks, "M1")] :
             ks \in SUBSET MetaKeys }
    \cup { [kind |-> "file", json |-> "object", data |-> MetaData(MetaKeys, "M2")] }

GoodMetadata == [kind |-> "file", json |-> "object", data |-> MetaData(MetaKeys, "M1")]

(* --------------------- videos/orbbec-femto-camera --------------------- *)
\* The time-sync logs the structural part of the model uses: the pairs
\* (index, microsecond tick) that TSyncFile / LegacyTSyncFile expose as .times.
Pair(i, tick) == <<i, tick>>
Log(ticks) == [i \in 1..Len(ticks) |-> Pair(i - 1, ticks[i])]

Ticks == {0, 33, 33333}
RECURSIVE SeqsUpTo(_, _)
SeqsUpTo(S, n) ==
    IF n = 0 THEN {<<>>}
    ELSE LET shorter == SeqsUpTo(S, n - 1)
         IN  shorter \cup { Append(s, x) : s \in { t \in shorter : Len(t) = n - 1 }, x \in S }
TickLogs == { Log(s) : s \in SeqsUpTo(Ticks, MaxLen) }
FewLogs == { Log(<<>>), Log(<<0, 33333>>) }

\* A directory entry.  `ext` is what str.endswith inspects; `kind` is what
\* the entry is on disk; `video` and `log` are its content.
VideoEntry(stem, ext, kind) ==
    [stem |-> stem, ext |-> ext, kind |-> kind, video |-> stem, legacy |-> FALSE, log |-> <<>>]
TsyncEntry(stem, legacy, log) ==
    [stem |-> stem, ext |-> ".tsync", kind |-> "file", video |-> "", legacy |-> legacy, log |-> log]
OtherEntry(stem, ext) ==
    [stem |-> stem, ext |-> ext, kind |-> "file", video |-> "", legacy |-> FALSE, log |-> <<>>]

EndsWith(file, suffix) == file.ext = suffix

FewEntries ==
    { VideoEntry("cam", ".mp4", "file"), VideoEntry("raw", ".avi", "file"),
      VideoEntry("old", ".mkv", "file"), VideoEntry("dir", ".avi", "dir"),
      OtherEntry("notes", ".txt") }
    \cup { TsyncEntry("cam", FALSE, l) : l \in FewLogs }
    \cup { TsyncEntry("bak", TRUE, Log(<<33>>)) }

\* Listings in directory order (os.listdir order is the file system's, not
\* sorted): every sequence of distinct names is a possible order.
Distinct(s) == \A i, j \in 1..Len(s) : i # j => <<s[i].stem, s[i].ext>> # <<s[j].stem, s[j].ext>>
Listings == { s \in SeqsUpTo(FewEntries, MaxEntries) : Distinct(s) }

NoVideoDir == [kind |-> "absent", entries |-> <<>>]
VideoDirs ==
    { NoVideoDir, [kind |-> "file", entries |-> <<>>] }
    \cup { [kind |-> "dir", entries |-> l] : l \in Listings }

(* ------------------------------ trees --------------------------------- *)
CollectionManifest == [kind |-> "file", toml |-> "ok", type |-> StrType("collection")]

Tree(kind, manifest, metadata, video_src) ==
    [kind |-> kind, manifest |-> manifest, metadata |-> metadata, video_src |-> video_src]

GoodListing(log) == <<VideoEntry("cam", ".mp4", "file"), TsyncEntry("cam", FALSE, log)>>
GoodVideoDir == [kind |-> "dir", entries |-> GoodListing(Log(<<0, 33333>>))]

Trees ==
    \* path is missing or a regular file
    { Tree(k, NoManifest, NoMetadata, NoVideoDir) : k \in {"absent", "file"} }
    \* any manifest over a complete recording
    \cup { Tree("dir", m, GoodMetadata, GoodVideoDir) : m \in Manifests }
    \* a collection with any metadata and any sensor directory
    \cup { Tree("dir", CollectionManifest, md, vd) : md \in Metadatas, vd \in VideoDirs }
    \* a complete collection with any time-sync log
    \cup { Tree("dir", CollectionManifest, GoodMetadata,
                [kind |-> "dir", entries |-> GoodListing(l)]) : l \in TickLogs }

(* --------------------------- exceptions ------------------------------- *)
\* cls is the Python class, line the statement of format.py that raises,
\* arg what the message interpolates.
NoExc == [cls |-> "", line |-> 0, arg |-> ""]
Exc(cls, line, arg) == [cls |-> cls, line |-> line, arg |-> arg]

(* ------------------------ _detect_edl_type ---------------------------- *)
\* ret is the returned string, exc the exception raised instead, opened
\* whether manifest.toml was opened and handed to the parser.
Detected(ret, exc, opened) == [ret |-> ret, exc |-> exc, opened |-> opened]

\* Mutant: the test of "group" compares with "collection" a second time, so
\* a group falls through to the generic unit.
MapTypeGroupLost(t) ==
    IF t = StrType("dataset") THEN Detected("EDLDataset", NoExc, TRUE)
    ELSE IF t = StrType("collection") THEN Detected("EDLCollection", NoExc, TRUE)
    ELSE IF Truthy(t) THEN Detected("EDLUnit", NoExc, TRUE)
    ELSE Detected("", Exc("ValueError", 56, "type"), TRUE)

MapType(t) ==
    IF t = StrType("dataset") THEN Detected("EDLDataset", NoExc, TRUE)
    ELSE IF t = StrType("group") THEN Detected("EDLGroup", NoExc, TRUE)
    ELSE IF t = StrType("collection") THEN Detected("EDLCollection", NoExc, TRUE)
    ELSE IF Truthy(t) THEN Detected("EDLUnit", NoExc, TRUE)
    ELSE Detected("", Exc("ValueError", 56, "type"), TRUE)

\* Mutant: a missing manifest.toml is read as an empty document.
DetectMissingAsEmpty(path) ==
    IF path.kind # "dir"
    THEN Detected("", Exc("edlio.FileNotFoundError", 32, "path"), FALSE)
    ELSE IF path.manifest.kind # "file"
    THEN MapType(NoType)
    ELSE IF path.manifest.toml = "malformed"
    THEN Detected("", Exc("ValueError", 44, "parse"), TRUE)
    ELSE MapType(path.manifest.type)

_detect_edl_type(path) ==
    IF path.kind # "dir"
    THEN Detected("", Exc("edlio.FileNotFoundError", 32, "path"), FALSE)
    ELSE IF path.manifest.kind # "file"
    THEN Detected("", Exc("edlio.FileNotFoundError", 38, "manifest"), FALSE)
    ELSE IF path.manifest.toml = "malformed"
    THEN Detected("", Exc("ValueError", 44, "parse"), TRUE)
    ELSE MapType(path.manifest.type)

(* --------------- check_timestamp_error_percentage --------------------- *)
\* A float is [ms, us]; Micro is its value in thousandths.
Float(ms, us) == [ms |-> ms, us |-> us]
Micro(x) == x.ms * TicksPerMs + x.us

np_diff(a) == [i \in 1..(Len(a) - 1) |-> Micro(a[i + 1]) - Micro(a[i])]

RECURSIVE Sum(_)
Sum(s) == IF Len(s) = 0 THEN 0 ELSE s[1] + Sum(Tail(s))

Abs(x) == IF x < 0 THEN -x ELSE x

\* The result as an exact fraction num/den, or nan (mean of an empty array),
\* or inf (1 / 0.0 on a numpy float64).  With S the sum of the differences in
\* thousandths and n their number, the mean is S / (TicksPerMs * n); it is
\* divided by scale when it exceeds MsThreshold.
PercentError(kind, num, den) == [kind |-> kind, num |-> num, den |-> den]

check_timestamp_error_percentage(timestamps, rate, scale) ==
    LET diff == np_diff(timestamps)
        n == Len(diff)
        S == Sum(diff)
        rescale == S > MsThreshold * TicksPerMs * n
        K == IF rescale THEN TicksPerMs * scale ELSE TicksPerMs
    IN  IF n = 0 THEN PercentError("nan", 0, 1)
        ELSE IF S = 0 THEN PercentError("inf", 1, 0)
        ELSE PercentError("finite", Abs(rate * S - K * n), rate * Abs(S))

\* percentError >= 0.05; a comparison with nan is False.
AtLeastThreshold(e) ==
    CASE e.kind = "nan" -> FALSE
      [] e.kind = "inf" -> TRUE
      [] OTHER          -> e.num * WarnDen >= WarnNum * e.den

(* --------------------------- tsync_to_np ------------------------------ *)
\* Both readers expose the parsed pairs as .times.
TSyncTimes(tsync_path) == tsync_path.log

\* Mutant: floor division, time_pair[1] // 1000.
ToMsFloor(tick) == Float(tick \div TicksPerMs, 0)

ToMs(tick) == Float(tick \div TicksPerMs, tick % TicksPerMs)

Decoded(arr, warned) == [arr |-> arr, warned |-> warned]

tsync_to_np(tsync_path) ==
    LET times == TSyncTimes(tsync_path)
        tstamps == [i \in 1..Len(times) |-> ToMs(times[i][2])]
    IN  Decoded(tstamps,
                AtLeastThreshold(check_timestamp_error_percentage(tstamps, fps, scaling_factor)))

(* ---------------------- destination contents -------------------------- *)
DatasetName(data) ==
    data["SubjectName"] \o "_" \o data["SessionName"] \o "_" \o data["StartTime"]
DatasetNames == { DatasetName(MetaData(MetaKeys, s)) : s \in Subjects }
Artifacts == {"depth.avi", "metadata.json", "depth_ts.txt"}
\* The names a file of a destination directory can have: the three artifacts
\* and the names the copied sources have in the recording.
FileName(entry) == entry.stem \o entry.ext
DestNames == Artifacts \cup { FileName(e) : e \in { x \in FewEntries : x.video # "" } }

\* A file of a destination directory.  complete is FALSE for a file a failed
\* copy or write left behind.
NoFile == [kind |-> "none", video |-> "", json |-> "", data |-> EmptyData,
           lines |-> <<>>, complete |-> TRUE]
VideoCopy(entry, complete) ==
    [kind |-> "video", video |-> entry.video, json |-> "", data |-> EmptyData,
     lines |-> <<>>, complete |-> complete]
MetadataCopy(md, complete) ==
    [kind |-> "json", video |-> "", json |-> md.json, data |-> md.data,
     lines |-> <<>>, complete |-> complete]
\* f"{float(timestamp)}\n": the shortest decimal text of the float, one per line.
FormatLine(timestamp) == <<timestamp.ms, ".", timestamp.us>>
TextFile(lines, complete) ==
    [kind |-> "text", video |-> "", json |-> "", data |-> EmptyData,
     lines |-> lines, complete |-> complete]

\* Mutant: a listing that fails is reported as a ValueError.
ListDirWrapped(d) ==
    CASE d.kind = "absent" -> [exc |-> Exc("ValueError", 139, "videos"), entries |-> <<>>]
      [] d.kind = "file"   -> [exc |-> Exc("ValueError", 139, "videos"), entries |-> <<>>]
      [] OTHER             -> [exc |-> NoExc, entries |-> d.entries]

\* os.listdir(video_src_path)
ListDir(d) ==
    CASE d.kind = "absent" -> [exc |-> Exc("builtins.FileNotFoundError", 139, "videos"), entries |-> <<>>]
      [] d.kind = "file"   -> [exc |-> Exc("NotADirectoryError", 139, "videos"), entries |-> <<>>]
      [] OTHER             -> [exc |-> NoExc, entries |-> d.entries]

VideoSuffixes == {".avi", ".mkv", ".mp4"}

\* Index of the first entry a `for ... if ...: break` loop stops at, 0 if none.
FirstIndex(entries, suffixes) ==
    LET hits == { i \in 1..Len(entries) : \E x \in suffixes : EndsWith(entries[i], x) }
    IN  IF hits = {} THEN 0 ELSE CHOOSE i \in hits : \A j \in hits : i <= j

NoEntry == OtherEntry("", "")
Unbound == [bound |-> FALSE, arr |-> <<>>]
Bound(arr) == [bound |-> TRUE, arr |-> arr]

(* ------------------------------ state --------------------------------- *)
VARIABLES
    path,           \* the tree format() is called on (read only)
    dirs,           \* the directories below path that format() created
    files,          \* [dataset name, artifact] -> the file there
    pc,             \* position inside format()
    calls,          \* calls of format() started
    edl_type,       \* result of _detect_edl_type(path) at line 127
    videofile,      \* local of format()
    tsyncfile,      \* the entry the second loop stopped at
    timestamps,     \* local of format(), unbound until assigned
    warned,         \* the warning of line 84 was printed
    dataset_name,   \* local of format()
    exc,            \* the exception format() ended with
    trace,          \* writes completed by the running call, in order
    dirs0, files0,  \* dirs and files when the running call started
    history         \* one record per call that ended

vars == <<path, dirs, files, pc, calls, edl_type, videofile, tsyncfile, timestamps,
          warned, dataset_name, exc, trace, dirs0, files0, history>>

locals == <<edl_type, videofile, tsyncfile, timestamps, warned, dataset_name>>
disk == <<dirs, files>>

NotDetected == Detected("", NoExc, FALSE)

Init ==
    /\ path \in Trees
    /\ dirs = {}
    /\ files = [k \in DatasetNames \X DestNames |-> NoFile]
    /\ pc = "idle"
    /\ calls = 0
    /\ edl_type = NotDetected
    /\ videofile = NoEntry
    /\ tsyncfile = NoEntry
    /\ timestamps = Unbound
    /\ warned = FALSE
    /\ dataset_name = ""
    /\ exc = NoExc
    /\ trace = <<>>
    /\ dirs0 = {}
    /\ files0 = files
    /\ history = <<>>

Ended(ok, d, f) ==
    [ok |-> ok, dirs |-> d, files |-> f, videofile |-> videofile, tsyncfile |-> tsyncfile]

\* An exception leaves format(): nothing is caught, nothing is undone.
Raise(e, d, f) ==
    /\ pc' = "failed"
    /\ exc' = e
    /\ dirs' = d
    /\ files' = f
    /\ history' = Append(history, Ended(FALSE, d, f))

Goto(label) ==
    /\ pc' = label
    /\ UNCHANGED <<exc, history>>

(* ------------------------------ format -------------------------------- *)
Call ==
    /\ pc \in {"idle", "done", "failed"}
    /\ calls < MaxCalls
    /\ calls' = calls + 1
    /\ pc' = "classify"
    /\ edl_type' = NotDetected
    /\ videofile' = NoEntry
    /\ tsyncfile' = NoEntry
    /\ timestamps' = Unbound
    /\ warned' = FALSE
    /\ dataset_name' = ""
    /\ exc' = NoExc
    /\ trace' = <<>>
    /\ dirs0' = dirs
    /\ files0' = files
    /\ UNCHANGED <<path, dirs, files, history>>

\* Mutant: the assert statement is gone; any classification is accepted.
ClassifyNoAssert ==
    /\ pc = "classify"
    /\ edl_type' = _detect_edl_type(path)
    /\ IF edl_type'.exc # NoExc
       THEN Raise(edl_type'.exc, dirs, files)
       ELSE Goto("find_metadata") /\ UNCHANGED disk
    /\ UNCHANGED <<path, calls, videofile, tsyncfile, timestamps, warned, dataset_name,
                   trace, dirs0, files0>>

\* lines 126-129
Classify ==
    /\ pc = "classify"
    /\ edl_type' = _detect_edl_type(path)
    /\ IF edl_type'.exc # NoExc
       THEN Raise(edl_type'.exc, dirs, files)
       ELSE IF edl_type'.ret # "EDLCollection"
       THEN Raise(Exc("AssertionError", 126, _detect_edl_type(path).ret), dirs, files)
       ELSE Goto("find_metadata") /\ UNCHANGED disk
    /\ UNCHANGED <<path, calls, videofile, tsyncfile, timestamps, warned, dataset_name,
                   trace, dirs0, files0>>

\* lines 131-134
FindMetadata ==
    /\ pc = "find_metadata"
    /\ IF path.metadata.kind = "absent"
       THEN Raise(Exc("edlio.FileNotFoundError", 134, "metadata"), dirs, files)
       ELSE Goto("find_video") /\ UNCHANGED disk
    /\ UNCHANGED <<path, calls, locals, trace, dirs0, files0>>

\* lines 136-145
FindVideo ==
    /\ pc = "find_video"
    /\ LET ls == ListDir(path.video_src)
           i == FirstIndex(ls.entries, VideoSuffixes)
       IN  IF ls.exc # NoExc
           THEN Raise(ls.exc, dirs, files) /\ UNCHANGED videofile
           ELSE IF i = 0
           THEN Raise(Exc("edlio.FileNotFoundError", 145, "video"), dirs, files)
                /\ UNCHANGED videofile
           ELSE /\ videofile' = ls.entries[i]
                /\ Goto("find_tsync")
                /\ UNCHANGED disk
    /\ UNCHANGED <<path, calls, edl_type, tsyncfile, timestamps, warned, dataset_name,
                   trace, dirs0, files0>>

\* lines 147-150
FindTsync ==
    /\ pc = "find_tsync"
    /\ LET ls == ListDir(path.video_src)
           i == FirstIndex(ls.entries, {".tsync"})
       IN  IF ls.exc # NoExc
           THEN Raise([ls.exc EXCEPT !.line = 147], dirs, files)
                /\ UNCHANGED <<tsyncfile, timestamps, warned>>
           ELSE IF i = 0
           THEN Goto("check_timestamps") /\ UNCHANGED <<disk, tsyncfile, timestamps, warned>>
           ELSE /\ tsyncfile' = ls.entries[i]
                /\ timestamps' = Bound(tsync_to_np(ls.entries[i]).arr)
                /\ warned' = tsync_to_np(ls.entries[i]).warned
                /\ Goto("check_timestamps")
                /\ UNCHANGED disk
    /\ UNCHANGED <<path, calls, edl_type, videofile, dataset_name, trace, dirs0, files0>>

\* Mutant: the length test is gone.
CheckTimestampsNoLength ==
    /\ pc = "check_timestamps"
    /\ IF ~timestamps.bound
       THEN Raise(Exc("UnboundLocalError", 152, "timestamps"), dirs, files)
       ELSE Goto("read_metadata") /\ UNCHANGED disk
    /\ UNCHANGED <<path, calls, locals, trace, dirs0, files0>>

\* lines 152-155
CheckTimestamps ==
    /\ pc = "check_timestamps"
    /\ IF ~timestamps.bound
       THEN Raise(Exc("UnboundLocalError", 152, "timestamps"), dirs, files)
       ELSE IF Len(timestamps.arr) = 0
       THEN Raise(Exc("ValueError", 153, "tsync"), dirs, files)
       ELSE Goto("read_metadata") /\ UNCHANGED disk
    /\ UNCHANGED <<path, calls, locals, trace, dirs0, files0>>

\* The first key of the f-string on line 161 that the document lacks, "" if none.
MissingKey(data) ==
    IF "SubjectName" \notin DOMAIN data THEN "SubjectName"
    ELSE IF "SessionName" \notin DOMAIN data THEN "SessionName"
    ELSE IF "StartTime" \notin DOMAIN data THEN "StartTime"
    ELSE ""

\* Mutant: data.get(key) instead of data[key]; a missing field reads as None.
ReadMetadataGet ==
    /\ pc = "read_metadata"
    /\ LET md == path.metadata
       IN  IF md.kind = "dir"
           THEN Raise(Exc("IsADirectoryError", 158, "metadata"), dirs, files)
                /\ UNCHANGED dataset_name
           ELSE IF md.json = "invalid"
           THEN Raise(Exc("JSONDecodeError", 159, "metadata"), dirs, files)
                /\ UNCHANGED dataset_name
           ELSE IF md.json = "array"
           THEN Raise(Exc("TypeError", 161, "metadata"), dirs, files)
                /\ UNCHANGED dataset_name
           ELSE /\ dataset_name' =
                     IF MissingKey(md.data) # "" THEN "None" ELSE DatasetName(md.data)
                /\ Goto("makedirs")
                /\ UNCHANGED disk
    /\ UNCHANGED <<path, calls, edl_type, videofile, tsyncfile, timestamps, warned,
                   trace, dirs0, files0>>

\* lines 157-162
ReadMetadata ==
    /\ pc = "read_metadata"
    /\ LET md == path.metadata
       IN  IF md.kind = "dir"
           THEN Raise(Exc("IsADirectoryError", 158, "metadata"), dirs, files)
                /\ UNCHANGED dataset_name
           ELSE IF md.json = "invalid"
           THEN Raise(Exc("JSONDecodeError", 159, "metadata"), dirs, files)
                /\ UNCHANGED dataset_name
           ELSE IF md.json = "array"
           THEN Raise(Exc("TypeError", 161, "metadata"), dirs, files)
                /\ UNCHANGED dataset_name
           ELSE IF MissingKey(md.data) # ""
           THEN Raise(Exc("KeyError", 161, MissingKey(md.data)), dirs, files)
                /\ UNCHANGED dataset_name
           ELSE /\ dataset_name' = DatasetName(md.data)
                /\ Goto("makedirs")
                /\ UNCHANGED disk
    /\ UNCHANGED <<path, calls, edl_type, videofile, tsyncfile, timestamps, warned,
                   trace, dirs0, files0>>

\* What the operating system does to a write: it succeeds, it fails before
\* the target is opened, or it fails after the target was opened for writing.
IoOutcomes == {"ok", "fail_open", "fail_write"}

Key(artifact) == <<dataset_name, artifact>>
Put(artifact, file) == [files EXCEPT ![Key(artifact)] = file]

Wrote(op, d, f, label) ==
    /\ dirs' = d
    /\ files' = f
    /\ trace' = Append(trace, op)
    /\ Goto(label)

\* lines 164-165
MakeDirs ==
    /\ pc = "makedirs"
    /\ \E io \in {"ok", "fail_open"} :
         IF io = "ok"
         THEN Wrote("makedirs", dirs \cup {dataset_name}, files, "copy_video")
         ELSE Raise(Exc("OSError", 165, "makedirs"), dirs, files) /\ UNCHANGED trace
    /\ UNCHANGED <<path, calls, locals, dirs0, files0>>

\* Mutant: shutil.copy(videofile, moseq_dir) keeps the name of the source.
CopyVideoKeepName ==
    /\ pc = "copy_video"
    /\ IF videofile.kind = "dir"
       THEN Raise(Exc("IsADirectoryError", 169, "video"), dirs, files) /\ UNCHANGED trace
       ELSE \E io \in IoOutcomes :
              CASE io = "ok" ->
                     Wrote("depth.avi", dirs,
                           Put(FileName(videofile), VideoCopy(videofile, TRUE)),
                           "copy_metadata")
                [] io = "fail_open" ->
                     Raise(Exc("OSError", 169, "video"), dirs, files) /\ UNCHANGED trace
                [] OTHER ->
                     Raise(Exc("OSError", 169, "video"), dirs,
                           Put(FileName(videofile), VideoCopy(videofile, FALSE)))
                     /\ UNCHANGED trace
    /\ UNCHANGED <<path, calls, locals, dirs0, files0>>

\* lines 167-169
CopyVideo ==
    /\ pc = "copy_video"
    /\ IF videofile.kind = "dir"
       THEN Raise(Exc("IsADirectoryError", 169, "video"), dirs, files) /\ UNCHANGED trace
       ELSE \E io \in IoOutcomes :
              CASE io = "ok" ->
                     Wrote("depth.avi", dirs, Put("depth.avi", VideoCopy(videofile, TRUE)),
                           "copy_metadata")
                [] io = "fail_open" ->
                     Raise(Exc("OSError", 169, "video"), dirs, files) /\ UNCHANGED trace
                [] OTHER ->
                     Raise(Exc("OSError", 169, "video"), dirs,
                           Put("depth.avi", VideoCopy(videofile, FALSE)))
                     /\ UNCHANGED trace
    /\ UNCHANGED <<path, calls, locals, dirs0, files0>>

\* Mutant: a failed copy removes the destination directory again.
CopyMetadataRollback ==
    /\ pc = "copy_metadata"
    /\ \E io \in IoOutcomes :
         CASE io = "ok" ->
                Wrote("metadata.json", dirs,
                      Put("metadata.json", MetadataCopy(path.metadata, TRUE)),
                      "write_timestamps")
           [] OTHER ->
                Raise(Exc("OSError", 173, "metadata"), dirs \ {dataset_name},
                      [k \in DOMAIN files |-> IF k[1] = dataset_name THEN NoFile ELSE files[k]])
                /\ UNCHANGED trace
    /\ UNCHANGED <<path, calls, locals, dirs0, files0>>

\* lines 171-173
CopyMetadata ==
    /\ pc = "copy_metadata"
    /\ \E io \in IoOutcomes :
         CASE io = "ok" ->
                Wrote("metadata.json", dirs,
                      Put("metadata.json", MetadataCopy(path.metadata, TRUE)),
                      "write_timestamps")
           [] io = "fail_open" ->
                Raise(Exc("OSError", 173, "metadata"), dirs, files) /\ UNCHANGED trace
           [] OTHER ->
                Raise(Exc("OSError", 173, "metadata"), dirs,
                      Put("metadata.json", MetadataCopy(path.metadata, FALSE)))
                /\ UNCHANGED trace
    /\ UNCHANGED <<path, calls, locals, dirs0, files0>>

\* The lines the loop of 177-178 writes for the first n timestamps.
Lines(arr, n) == [i \in 1..n |-> FormatLine(arr[i])]

\* Mutant: mode "a"; the lines are added to what the file holds.
WriteTimestampsAppend ==
    /\ pc = "write_timestamps"
    /\ LET old == files[Key("depth_ts.txt")].lines
       IN  \E io \in IoOutcomes :
             CASE io = "ok" ->
                    Wrote("depth_ts.txt", dirs,
                          Put("depth_ts.txt",
                              TextFile(old \o Lines(timestamps.arr, Len(timestamps.arr)), TRUE)),
                          "return")
               [] io = "fail_open" ->
                    Raise(Exc("OSError", 176, "timestamps"), dirs, files) /\ UNCHANGED trace
               [] OTHER ->
                    \E n \in 0..(Len(timestamps.arr) - 1) :
                        Raise(Exc("OSError", 178, "timestamps"), dirs,
                              Put("depth_ts.txt",
                                  TextFile(old \o Lines(timestamps.arr, n), FALSE)))
                        /\ UNCHANGED trace
    /\ UNCHANGED <<path, calls, locals, dirs0, files0>>

\* lines 175-178: mode "w" truncates the file, then one line per timestamp.
WriteTimestamps ==
    /\ pc = "write_timestamps"
    /\ \E io \in IoOutcomes :
         CASE io = "ok" ->
                Wrote("depth_ts.txt", dirs,
                      Put("depth_ts.txt",
                          TextFile(Lines(timestamps.arr, Len(timestamps.arr)), TRUE)),
                      "return")
           [] io = "fail_open" ->
                Raise(Exc("OSError", 176, "timestamps"), dirs, files) /\ UNCHANGED trace
           [] OTHER ->
                \E n \in 0..(Len(timestamps.arr) - 1) :
                    Raise(Exc("OSError", 178, "timestamps"), dirs,
                          Put("depth_ts.txt", TextFile(Lines(timestamps.arr, n), FALSE)))
                    /\ UNCHANGED trace
    /\ UNCHANGED <<path, calls, locals, dirs0, files0>>

\* lines 180-183: the summary is printed and format() returns None.
Return ==
    /\ pc = "return"
    /\ pc' = "done"
    /\ history' = Append(history, Ended(TRUE, dirs, files))
    /\ UNCHANGED <<path, dirs, files, calls, locals, exc, trace, dirs0, files0>>

Next ==
    \/ Call
    \/ Classify
    \/ FindMetadata
    \/ FindVideo
    \/ FindTsync
    \/ CheckTimestamps
    \/ ReadMetadata
    \/ MakeDirs
    \/ CopyVideo
    \/ CopyMetadata
    \/ WriteTimestamps
    \/ Return

Spec == Init /\ [][Next]_vars

(* ====================== properties of the code ======================== *)
\* The error kinds of the specification, as classes of the Python exceptions.
Kind(e) ==
    CASE e.cls \in {"edlio.FileNotFoundError", "builtins.FileNotFoundError"} -> "NotFoundError"
      [] e.cls = "ValueError" /\ e.line = 44 -> "ParseError"
      [] e.cls \in {"ValueError", "AssertionError", "KeyError"} -> "ValidationError"
      [] OTHER -> e.cls

Classified == pc \notin {"idle", "classify"}
CallEnded == pc \in {"done", "failed"}
DiskUnchanged == dirs = dirs0 /\ files = files0
NothingWritten == trace = <<>> /\ DiskUnchanged

ManifestParses ==
    path.kind = "dir" /\ path.manifest.kind = "file" /\ path.manifest.toml = "ok"
IsCollection == ManifestParses /\ path.manifest.type = StrType("collection")

\* A value of `type` that is missing or falsy ("", 0, false).
EmptyType(t) == t.tag = "none" \/ (t.tag = "str" /\ t.str = "") \/ (t.tag # "str" /\ t.num = 0)

Tags == {"EDLDataset", "EDLGroup", "EDLCollection", "EDLUnit"}

\* C1: for a manifest that parses, "dataset", "group" and "collection" give
\* EDLDataset, EDLGroup and EDLCollection, any other non-empty value gives
\* EDLUnit, a missing or empty value raises the ValueError of line 56, and
\* exactly one of the five outcomes occurs.
C1_TypeMapping ==
    (Classified /\ ManifestParses) =>
        LET t == path.manifest.type
            r == edl_type
            expected ==
                CASE t = StrType("dataset")    -> "EDLDataset"
                  [] t = StrType("group")      -> "EDLGroup"
                  [] t = StrType("collection") -> "EDLCollection"
                  [] EmptyType(t)              -> ""
                  [] OTHER                     -> "EDLUnit"
        IN  /\ r.ret = expected
            /\ (r.ret \in Tags) # (r.exc # NoExc)
            /\ r.ret \in Tags => r.exc = NoExc
            /\ r.ret \notin Tags =>
                 /\ r.exc.cls = "ValueError"
                 /\ Kind(r.exc) = "ValidationError"
                 /\ pc = "failed" /\ exc = r.exc

C1_Witness ==
    /\ Classified /\ ManifestParses
    /\ path.manifest.type = StrType("group")
    /\ edl_type.ret = "EDLGroup"

\* C2: a path that is no directory, and a directory without a manifest.toml
\* file, make _detect_edl_type raise NotFoundError without opening the
\* manifest, and nothing on disk changes.
C2_NotFound ==
    (Classified /\ (path.kind # "dir" \/ path.manifest.kind # "file")) =>
        /\ edl_type.ret = ""
        /\ Kind(edl_type.exc) = "NotFoundError"
        /\ ~edl_type.opened
        /\ pc = "failed" /\ exc = edl_type.exc
        /\ NothingWritten

C2_Witness ==
    /\ Classified
    /\ path.kind = "dir" /\ path.manifest.kind = "absent"
    /\ edl_type.exc = Exc("edlio.FileNotFoundError", 38, "manifest")

\* C3: format() on a root classified EDLDataset, EDLGroup or EDLUnit ends at
\* its first statement with the error "expected EDLCollection, got X"; no
\* path was resolved and nothing was created.
C3_RejectsNonCollection ==
    (Classified /\ ManifestParses /\ ~EmptyType(path.manifest.type)
       /\ path.manifest.type # StrType("collection")) =>
        /\ pc = "failed"
        /\ exc.cls = "AssertionError" /\ exc.line = 126
        /\ exc.arg \in {"EDLDataset", "EDLGroup", "EDLUnit"} /\ exc.arg = edl_type.ret
        /\ Kind(exc) = "ValidationError"
        /\ videofile = NoEntry /\ tsyncfile = NoEntry /\ ~timestamps.bound
        /\ dataset_name = ""
        /\ NothingWritten

C3_Witness ==
    /\ pc = "failed"
    /\ path.manifest.type = StrType("dataset")
    /\ exc = Exc("AssertionError", 126, "EDLDataset")

\* C4: on a collection without the directory videos/orbbec-femto-camera,
\* format() never creates a directory or a file, and ends with NotFoundError
\* (with the OSError of os.listdir when a regular file has that name).
C4_NoVideoDir ==
    (IsCollection /\ path.video_src.kind # "dir") =>
        /\ NothingWritten
        /\ dirs = {}
        /\ dataset_name = ""
        /\ pc \in {"idle", "classify", "find_metadata", "find_video", "failed"}
        /\ (pc = "failed" /\ path.video_src.kind = "absent") =>
             /\ Kind(exc) = "NotFoundError"
             /\ exc.line \in {134, 139}
        /\ (pc = "failed" /\ path.video_src.kind = "file") =>
             exc \in { Exc("edlio.FileNotFoundError", 134, "metadata"),
                       Exc("NotADirectoryError", 139, "videos") }

C4_Witness ==
    /\ IsCollection /\ path.video_src.kind = "absent" /\ path.metadata = GoodMetadata
    /\ pc = "failed"
    /\ exc = Exc("builtins.FileNotFoundError", 139, "videos")

\* The time-sync file the recording offers: the first .tsync entry of the
\* sensor directory, in listing order.
TsyncIndexes == { i \in 1..Len(path.video_src.entries) : path.video_src.entries[i].ext = ".tsync" }
HasVideo == \E i \in 1..Len(path.video_src.entries) : path.video_src.entries[i].ext \in VideoSuffixes
HasTsync == TsyncIndexes # {}
TheTsync == path.video_src.entries[CHOOSE i \in TsyncIndexes : \A j \in TsyncIndexes : i <= j]
Resolvable ==
    IsCollection /\ path.metadata.kind # "absent" /\ path.video_src.kind = "dir" /\ HasVideo

\* C5: on a collection whose time-sync log decodes to zero entries, format()
\* raises the ValueError of line 153 and creates no directory and no file.
C5_EmptyLog ==
    (Resolvable /\ HasTsync /\ Len(TheTsync.log) = 0) =>
        /\ NothingWritten
        /\ pc # "done"
        /\ CallEnded =>
             /\ exc = Exc("ValueError", 153, "tsync")
             /\ Kind(exc) = "ValidationError"
             /\ timestamps = Bound(<<>>)
             /\ dirs = {} /\ \A k \in DOMAIN files : files[k] = NoFile

C5_Witness ==
    /\ Resolvable /\ HasTsync /\ Len(TheTsync.log) = 0
    /\ pc = "failed" /\ exc.line = 153 /\ calls = 2

\* C6: after format() returned, the directory
\* SubjectName_SessionName_StartTime holds exactly depth.avi, metadata.json
\* and depth_ts.txt, and depth_ts.txt has one line per entry of the log.
C6_ThreeArtifacts ==
    (pc = "done") =>
        LET name == DatasetName(path.metadata.data)
        IN  /\ dataset_name = name
            /\ dirs = {name}
            /\ { k \in DOMAIN files : files[k] # NoFile } = {name} \X Artifacts
            /\ \A a \in Artifacts : files[<<name, a>>].complete
            /\ files[<<name, "depth.avi">>].kind = "video"
            /\ \E i \in 1..Len(path.video_src.entries) :
                  /\ path.video_src.entries[i].ext \in VideoSuffixes
                  /\ files[<<name, "depth.avi">>].video = path.video_src.entries[i].video
            /\ files[<<name, "metadata.json">>] = MetadataCopy(path.metadata, TRUE)
            /\ files[<<name, "depth_ts.txt">>].kind = "text"
            /\ Len(files[<<name, "depth_ts.txt">>].lines) = Len(TheTsync.log)

C6_Witness ==
    /\ pc = "done"
    /\ path.metadata.data["SubjectName"] = "M2"
    /\ dirs = {"M2_S1_T0"}
    /\ Len(files[<<"M2_S1_T0", "depth_ts.txt">>].lines) = 2

\* C7: of two calls in a row that both return, the second leaves the
\* directories and files the first left, all files complete, and stops at
\* the same video and time-sync entries.
C7_Idempotent ==
    \A i \in 1..(Len(history) - 1) :
        (history[i].ok /\ history[i + 1].ok) =>
            /\ history[i + 1].dirs = history[i].dirs
            /\ history[i + 1].files = history[i].files
            /\ \A k \in DOMAIN history[i + 1].files : history[i + 1].files[k].complete
            /\ history[i + 1].videofile = history[i].videofile
            /\ history[i + 1].tsyncfile = history[i].tsyncfile

C7_Witness ==
    /\ Len(history) = 2
    /\ history[1].ok /\ history[2].ok
    /\ Len(path.video_src.entries) = 2
    /\ path.video_src.entries[1].ext = ".tsync"
    /\ history[2].files[<<"M1_S1_T0", "depth_ts.txt">>].lines # <<>>

\* C8: tsync_to_np returns one value per entry of the log, in order, the
\* i-th being tick[i] / 1000 exactly; the warning changes nothing of that.
C8_Decoded ==
    (pc \notin {"idle", "classify", "find_metadata", "find_video", "find_tsync"}
       /\ tsyncfile # NoEntry) =>
        /\ timestamps.bound
        /\ Len(timestamps.arr) = Len(tsyncfile.log)
        /\ \A i \in 1..Len(tsyncfile.log) :
              /\ timestamps.arr[i].ms * 1000 + timestamps.arr[i].us = tsyncfile.log[i][2]
              /\ timestamps.arr[i].us \in 0..999
        /\ (warned /\ Len(timestamps.arr) > 0) => (pc = "failed" => exc.line # 153)

C8_Witness ==
    /\ pc = "done" /\ warned
    /\ Len(timestamps.arr) = 3
    /\ timestamps.arr[3] = Float(33, 333)
    /\ timestamps.arr[2] = Float(0, 33)

\* What steps 1 to 4 ask of the recording.
StepsOneToFourPass ==
    /\ Resolvable
    /\ path.metadata.kind = "file"
    /\ HasTsync /\ Len(TheTsync.log) > 0
    /\ path.metadata.json = "object"
    /\ MetaKeys \subseteq DOMAIN path.metadata.data

\* C9: format() creates the destination directory only on a recording that
\* passes steps 1 to 4; without a time-sync file, or without one of the three
\* metadata fields, it ends with an error and the disk as it was.
C9_CreateAfterChecks ==
    /\ (dirs # {} \/ trace # <<>> \/ pc \in {"makedirs", "copy_video", "copy_metadata",
                                             "write_timestamps", "return", "done"})
          => StepsOneToFourPass
    /\ (IsCollection /\ path.video_src.kind = "dir"
          /\ (~HasTsync \/ ~(MetaKeys \subseteq DOMAIN path.metadata.data))) =>
            /\ NothingWritten
            /\ dirs = {}
            /\ CallEnded => (pc = "failed" /\ exc # NoExc)

C9_Witness ==
    /\ pc = "failed"
    /\ exc = Exc("KeyError", 161, "StartTime")
    /\ HasTsync /\ HasVideo
    /\ dirs = {}

\* The writes of one call, in the order of lines 165, 169, 173 and 176.
WriteOrder == <<"makedirs", "depth.avi", "metadata.json", "depth_ts.txt">>

\* C10: the writes of a call are a prefix of WriteOrder; when a call fails
\* after it created the directory, the directory and the files of the
\* completed writes are in place and complete, and the files of the steps
\* after the failing one are as they were when the call started.
C10_OrderNoRollback ==
    /\ Len(trace) <= Len(WriteOrder)
    /\ \A i \in 1..Len(trace) : trace[i] = WriteOrder[i]
    /\ (pc = "failed" /\ Len(trace) >= 1) =>
         /\ dataset_name \in dirs
         /\ dirs0 \subseteq dirs
         /\ \A i \in 2..Len(WriteOrder) :
               LET f == files[<<dataset_name, WriteOrder[i]>>]
               IN  /\ i <= Len(trace) => (f # NoFile /\ f.complete)
                   /\ i > Len(trace) + 1 => f = files0[<<dataset_name, WriteOrder[i]>>]

C10_Witness ==
    /\ pc = "failed"
    /\ trace = <<"makedirs", "depth.avi">>
    /\ exc.line = 173
    /\ files[<<dataset_name, "depth.avi">>].complete
    /\ ~files[<<dataset_name, "metadata.json">>].complete
    /\ files[<<dataset_name, "depth_ts.txt">>] = NoFile

====
